---- MODULE Spec2Model ----
(***************************************************************************)
(* Model of the two ns-3 control scripts of the repository:                *)
(*   cellular_city_multicell_sim.cc (src/unnamed/part_001), prog = "multi" *)
(*   cellular_city_sim.cc                                 prog = "single"  *)
(*                                                                         *)
(* Spec    : main() from the profile selection up to Simulator::Run        *)
(*           (profile, node creation, eNodeB placement, attachment).       *)
(* AggSpec : main() after Simulator::Run: the fold over the FlowStats map   *)
(*           and the computation of the report.                            *)
(* GridSpec: the computation of nRows and nCols for every uint16_t nEnbs.  *)
(*                                                                         *)
(* C++ doubles are modelled as exact rationals (records num/den in lowest  *)
(* terms); ns3::Time values are integer milliseconds.                      *)
(***************************************************************************)
EXTENDS Integers, Sequences, FiniteSets, TLC

(* ------------------------------ bounds -------------------------------- *)
MaxEnbs == 9

MaxFlows == 2

MaxUes == 2

Areas == {1, 7, 2000}

Techs == {"4g", "5g", "3g"}

(* --------------------------- program constants ------------------------ *)
U16 == 65536

EnbHeight == 30

Bw4g == 50

Bw5g == 100

Delay4gMs == 10

Delay5gMs == 2

SingleAreaSize == 1000

DefaultEnbs == 4

DefaultAreaSize == 2000

Mega == 1000000

Milli == 1000

(* ------------------------- rational arithmetic ------------------------ *)
Abs(n) == IF n < 0 THEN -n ELSE n

RECURSIVE GCD(_, _)
GCD(a, b) == IF b = 0 THEN a ELSE GCD(b, a % b)

\* the result of a floating-point division by zero (inf or NaN): not a number
NaN == [num |-> 0, den |-> 0]

IsNaN(a) == a.den = 0

\* the rational n/d in lowest terms with a positive denominator; NaN when d = 0
Rat(n, d) ==
    IF d = 0 THEN NaN
    ELSE LET g == GCD(Abs(n), Abs(d))
             s == IF d < 0 THEN -1 ELSE 1
         IN  [num |-> s * (n \div g), den |-> s * (d \div g)]

Zero == Rat(0, 1)

RatAdd(a, b) == Rat(a.num * b.den + b.num * a.den, a.den * b.den)

RatNeg(a) == [num |-> -a.num, den |-> a.den]

RatSub(a, b) == RatAdd(a, RatNeg(b))

RatMulInt(k, a) == Rat(k * a.num, a.den)

\* a / b; NaN when b is zero
RatDiv(a, b) == Rat(a.num * b.den, a.den * b.num)

RatLe(a, b) == a.num * b.den <= b.num * a.den

RatLt(a, b) == a.num * b.den < b.num * a.den

(* ----------------------------- topology ------------------------------- *)
\* prog        which main() runs: "multi" (part_001) or "single"
\* tech, nEnbs, areaSize   command-line values (part_001:37-41); the single-cell
\*             program creates one eNodeB and scatters over [-500, 500]
\* pc          position in main(); divZero: some division or remainder was
\*             evaluated with a zero divisor
\* bandwidth, p2pDelayMs   DlBandwidth/UlBandwidth and the p2p channel delay
\* enbPos      position of each eNodeB's mobility model; placed: the indices
\*             SetPosition was called for
\* nRows, nCols, i         the grid and the loop index (uint16_t)
\* attachMode  which LteHelper::Attach overload was called
VARIABLES prog, tech, nEnbs, areaSize, pc, bandwidth, p2pDelayMs,
          enbPos, placed, nRows, nCols, i, attachMode, divZero

\* nUes        command-line value (part_001:36, cellular_city_sim.cc:36)
\* nodes       how many nodes each NodeContainer::Create call of main() made
\* uePlaced    the terminals given an initial position and a mobility model;
\*             the coordinates are drawn by the engine's random variables
\* ueAttach    for each terminal, the attachment LteHelper was asked for
VARIABLES nUes, nodes, uePlaced, ueAttach

deployVars == <<nUes, nodes, uePlaced, ueAttach>>

topoVars == <<prog, tech, nEnbs, areaSize, bandwidth, p2pDelayMs,
              enbPos, placed, nRows, nCols, i, attachMode, deployVars>>

\* result processing: the FlowStats map (stats), the fold's position in it (it),
\* the per-flow values computed for the log (flowLog), the accumulators, the
\* four metrics and the printed report (<<>> until it is printed)
VARIABLES stats, simTime, it, flowLog, totalDelay, totalJitter, totalRxPackets,
          totalRxBytes, totalLostPackets, meanDelayMs, jitterMs, throughputMbps,
          lossRatePct, report

aggVars == <<stats, simTime, it, flowLog, totalDelay, totalJitter, totalRxPackets,
             totalRxBytes, totalLostPackets, meanDelayMs, jitterMs,
             throughputMbps, lossRatePct, report>>

\* std::floor(std::sqrt(n)) for a uint16_t n
FloorSqrt(n) == CHOOSE r \in 0..255 : r * r <= n /\ n < (r + 1) * (r + 1)

\* std::ceil(static_cast<double>(n) / r) for r >= 1
CeilDiv(n, r) == (n + r - 1) \div r

\* faulty variant: the clamp to 1 is missing
GridRowsNoClamp(n) == FloorSqrt(n) % U16

\* uint16_t nRows = floor(sqrt(nEnbs)); if (nRows == 0) nRows = 1;
GridRows(n) ==
    LET r == FloorSqrt(n) % U16
    IN  IF r = 0 THEN 1 ELSE r

\* faulty variant: the quotient is truncated instead of rounded up
GridColsFloor(n, rows) == IF rows = 0 THEN 0 ELSE (n \div rows) % U16

\* uint16_t nCols = ceil((double)nEnbs / nRows); a zero nRows is flagged by the caller
GridCols(n, rows) == IF rows = 0 THEN 0 ELSE CeilDiv(n, rows) % U16

\* double half = areaSize / 2.0
Half(a) == Rat(a, 2)

\* double dx = areaSize / (nCols + 1)
Dx(a, cols) == Rat(a, cols + 1)

\* faulty variant: the margin row is not counted
DyNoMargin(a, rows) == Rat(a, rows)

\* double dy = areaSize / (nRows + 1)
Dy(a, rows) == Rat(a, rows + 1)

\* faulty variant: the remainder is taken for the row as well
RowOfRemainder(k, cols) == IF cols = 0 THEN 0 ELSE k % cols

\* uint16_t row = i / nCols
RowOf(k, cols) == IF cols = 0 THEN 0 ELSE k \div cols

\* uint16_t col = i % nCols
ColOf(k, cols) == IF cols = 0 THEN 0 ELSE k % cols

\* Vector(x, y, z) of station k in the grid loop
EnbPosition(k, a, rows, cols) ==
    [x |-> RatAdd(RatNeg(Half(a)), RatMulInt(ColOf(k, cols) + 1, Dx(a, cols))),
     y |-> RatAdd(RatNeg(Half(a)), RatMulInt(RowOf(k, cols) + 1, Dy(a, rows))),
     z |-> Rat(EnbHeight, 1)]

\* position of a ConstantPositionMobilityModel before SetPosition
Origin == [x |-> Zero, y |-> Zero, z |-> Zero]

\* Vector(0.0, 0.0, 30.0) of the single-cell program
SingleEnbPosition == [x |-> Zero, y |-> Zero, z |-> Rat(EnbHeight, 1)]

\* no NodeContainer::Create call made yet
NoNodes == [remoteHost |-> 0, enb |-> 0, ue |-> 0]

\* faulty variant: the final else with NS_ABORT_MSG is missing
ProfileAbortsNever(t) == FALSE

\* the final else of the profile selection: NS_ABORT_MSG
ProfileAborts(t) == ~(t = "4g" \/ t = "5g")

\* p2ph Delay: if (tech == "4g") 10ms else 2ms
P2pDelayMs(t) == IF t = "4g" THEN Delay4gMs ELSE Delay5gMs

\* faulty variant: a single station is attached to by signal as well
UeAttachmentBySignal(p) == [mode |-> "strongest", enb |-> "bestRsrp"]

\* what LteHelper is asked for each terminal: Attach(ueDevs) attaches to the
\* cell of the strongest signal, Attach(ueDevs.Get(i), enbDevs.Get(0)) to
\* station 0
UeAttachment(p) ==
    IF p = "multi"
    THEN [mode |-> "strongest", enb |-> "bestRsrp"]
    ELSE [mode |-> "forced", enb |-> 0]

\* the Attach overload main() has called once the attachment step is over;
\* the single-cell program calls it once per terminal
AttachModeOf(p, n) ==
    IF p = "multi" THEN "strongest" ELSE IF n > 0 THEN "forced" ELSE "none"

(* ---------------------------- aggregation ----------------------------- *)
\* FlowMonitor::FlowStats as the fold reads it; delaySum and jitterSum in ms.
\* The engine is external and the fold assumes nothing that ties the fields
\* of a record together, so the records range over the full product.
Payloads == {<<0, 0, 0>>, <<100, 50, 0>>, <<100, 50, 20>>}

BaseFlows ==
    {[rxPackets |-> r, rxBytes |-> p[1], lostPackets |-> l,
      delaySum |-> p[2], jitterSum |-> p[3]] :
        r \in {0, 1, 2}, l \in {0, 1}, p \in Payloads}

FlowA == [rxPackets |-> 10, rxBytes |-> 2000, lostPackets |-> 2,
          delaySum |-> 1000, jitterSum |-> 200]

FlowB == [rxPackets |-> 5, rxBytes |-> 1000, lostPackets |-> 0,
          delaySum |-> 300, jitterSum |-> 50]

FlowC == [rxPackets |-> 1, rxBytes |-> 100, lostPackets |-> 0,
          delaySum |-> 50, jitterSum |-> 0]

FlowRecords == BaseFlows \cup {FlowA, FlowB, FlowC}

\* std::map<FlowId, FlowStats> in key order
StatsMaps == UNION {[1..n -> FlowRecords] : n \in 0..MaxFlows}

SimTimes == {10, 60}

\* Time::GetSeconds() of a time in ms
GetSeconds(t) == Rat(t, 1000)

\* double throughputMbps = (fs.rxBytes * 8.0) / (simTime * 1e6)
FlowThroughputMbps(fs, T) == RatDiv(Rat(fs.rxBytes * 8, 1), Rat(T * Mega, 1))

\* faulty variant: the guard fs.rxPackets > 0 is missing
FlowMeanDelayMsUnguarded(fs) ==
    RatMulInt(Milli, RatDiv(GetSeconds(fs.delaySum), Rat(fs.rxPackets, 1)))

\* per-flow meanDelayMs, guarded by fs.rxPackets > 0
FlowMeanDelayMs(fs) ==
    IF fs.rxPackets > 0
    THEN RatMulInt(Milli, RatDiv(GetSeconds(fs.delaySum), Rat(fs.rxPackets, 1)))
    ELSE Zero

\* faulty variant: the delay is accumulated under the jitter's guard
AddDelayGuarded(acc, fs) ==
    IF fs.rxPackets > 1 THEN RatAdd(acc, GetSeconds(fs.delaySum)) ELSE acc

\* totalDelay += fs.delaySum.GetSeconds()
AddDelay(acc, fs) == RatAdd(acc, GetSeconds(fs.delaySum))

\* if (fs.rxPackets > 1) totalJitter += fs.jitterSum.GetSeconds()
AddJitter(acc, fs) ==
    IF fs.rxPackets > 1 THEN RatAdd(acc, GetSeconds(fs.jitterSum)) ELSE acc

\* double meanDelay = totalDelay / (double)totalRxPackets
MeanDelay(td, rx) == RatDiv(td, Rat(rx, 1))

\* faulty variant: the divisor is the packet count, not the count minus one
MeanJitterByCount(tj, rx) == IF rx > 1 THEN RatDiv(tj, Rat(rx, 1)) ELSE Zero

\* meanJitter = 0.0; if (totalRxPackets > 1) meanJitter = totalJitter / (totalRxPackets - 1)
MeanJitter(tj, rx) == IF rx > 1 THEN RatDiv(tj, Rat(rx - 1, 1)) ELSE Zero

\* faulty variant: the guard totalRxPackets > 0 is missing
ReportMeanDelayMsUnguarded(td, rx) == RatMulInt(Milli, MeanDelay(td, rx))

\* meanDelayMs of the report: 0.0 unless totalRxPackets > 0
ReportMeanDelayMs(td, rx) ==
    IF rx > 0 THEN RatMulInt(Milli, MeanDelay(td, rx)) ELSE Zero

\* jitterMs of the report: 0.0 unless totalRxPackets > 0
ReportJitterMs(tj, rx) ==
    IF rx > 0 THEN RatMulInt(Milli, MeanJitter(tj, rx)) ELSE Zero

\* faulty variant: the throughput is computed outside the guard
ReportThroughputMbpsUnguarded(bytes, rx, T) ==
    RatDiv(Rat(bytes * 8, 1), Rat(T * Mega, 1))

\* throughputMbps of the report: 0.0 unless totalRxPackets > 0
ReportThroughputMbps(bytes, rx, T) ==
    IF rx > 0 THEN RatDiv(Rat(bytes * 8, 1), Rat(T * Mega, 1)) ELSE Zero

\* faulty variant: the loss rate is computed under the guard totalRxPackets > 0
LossRatePctIfReceived(lost, rx) ==
    IF rx > 0 THEN RatDiv(Rat(lost * 100, 1), Rat(rx + lost, 1)) ELSE Zero

\* lossRatePct: 0.0 unless totalOfferedPackets > 0
LossRatePct(lost, rx) ==
    LET totalOfferedPackets == rx + lost
    IN  IF totalOfferedPackets > 0
        THEN RatDiv(Rat(lost * 100, 1), Rat(totalOfferedPackets, 1))
        ELSE Zero

\* the result-processing variables before Simulator::Run returns
AggIdle ==
    /\ stats = <<>>
    /\ it = 1
    /\ flowLog = <<>>
    /\ totalDelay = Zero
    /\ totalJitter = Zero
    /\ totalRxPackets = 0
    /\ totalRxBytes = 0
    /\ totalLostPackets = 0
    /\ meanDelayMs = Zero
    /\ jitterMs = Zero
    /\ throughputMbps = Zero
    /\ lossRatePct = Zero
    /\ report = <<>>

Init ==
    /\ prog \in {"multi", "single"}
    /\ tech \in Techs
    /\ simTime \in SimTimes
    /\ IF prog = "multi"
       THEN nEnbs \in 0..MaxEnbs /\ areaSize \in Areas
       ELSE nEnbs = 1 /\ areaSize = SingleAreaSize
    /\ pc = "profile"
    /\ bandwidth = 0
    /\ p2pDelayMs = 0
    /\ enbPos = <<>>
    /\ placed = {}
    /\ nRows = 0
    /\ nCols = 0
    /\ i = 0
    /\ attachMode = "none"
    /\ nUes \in 0..MaxUes
    /\ nodes = NoNodes
    /\ uePlaced = {}
    /\ ueAttach = <<>>
    /\ divZero = FALSE
    /\ AggIdle

\* if (tech == "4g") ... else if (tech == "5g") ... else NS_ABORT_MSG
SelectProfile ==
    /\ pc = "profile"
    /\ bandwidth' = IF tech = "4g" THEN Bw4g
                    ELSE IF tech = "5g" THEN Bw5g ELSE bandwidth
    /\ pc' = IF ProfileAborts(tech) THEN "aborted" ELSE "remote"
    /\ UNCHANGED <<prog, tech, nEnbs, areaSize, p2pDelayMs, enbPos, placed,
                   nRows, nCols, i, attachMode, divZero>>
    /\ UNCHANGED deployVars
    /\ UNCHANGED aggVars

\* remoteHostContainer.Create(1) and the p2p link: 10ms for "4g", else 2ms
CreateRemoteHost ==
    /\ pc = "remote"
    /\ nodes' = [nodes EXCEPT !.remoteHost = 1]
    /\ p2pDelayMs' = P2pDelayMs(tech)
    /\ pc' = "create"
    /\ UNCHANGED <<prog, tech, nEnbs, areaSize, bandwidth, enbPos, placed,
                   nRows, nCols, i, attachMode, divZero>>
    /\ UNCHANGED <<nUes, uePlaced, ueAttach>>
    /\ UNCHANGED aggVars

\* enbNodes.Create(n); ueNodes.Create(nUes); mobilityEnb.Install(enbNodes)
CreateNodes ==
    /\ pc = "create"
    /\ nodes' = [nodes EXCEPT !.enb = nEnbs, !.ue = nUes]
    /\ UNCHANGED <<nUes, uePlaced, ueAttach>>
    /\ enbPos' = [k \in 0..(nEnbs - 1) |-> Origin]
    /\ pc' = IF prog = "multi" THEN "grid" ELSE "placeSingle"
    /\ UNCHANGED <<prog, tech, nEnbs, areaSize, bandwidth, p2pDelayMs, placed,
                   nRows, nCols, i, attachMode, divZero>>
    /\ UNCHANGED aggVars

\* nRows, nCols, half, dx, dy and the loop's initialisation i = 0
ComputeGrid ==
    /\ pc = "grid"
    /\ nRows' = GridRows(nEnbs)
    /\ nCols' = GridCols(nEnbs, nRows')
    /\ divZero' = (divZero \/ nRows' = 0 \/ nCols' + 1 = 0 \/ nRows' + 1 = 0)
    /\ i' = 0
    /\ pc' = "loop"
    /\ UNCHANGED <<prog, tech, nEnbs, areaSize, bandwidth, p2pDelayMs, enbPos,
                   placed, attachMode>>
    /\ UNCHANGED deployVars
    /\ UNCHANGED aggVars

\* one iteration of for (uint16_t i = 0; i < nEnbs; ++i)
PlaceEnb ==
    /\ pc = "loop"
    /\ i < nEnbs
    /\ divZero' = (divZero \/ nCols = 0)
    /\ enbPos' = [enbPos EXCEPT ![i] = EnbPosition(i, areaSize, nRows, nCols)]
    /\ placed' = placed \cup {i}
    /\ i' = (i + 1) % U16
    /\ UNCHANGED <<prog, tech, nEnbs, areaSize, pc, bandwidth, p2pDelayMs,
                   nRows, nCols, attachMode>>
    /\ UNCHANGED deployVars
    /\ UNCHANGED aggVars

\* the loop's exit
EndPlace ==
    /\ pc = "loop"
    /\ ~(i < nEnbs)
    /\ pc' = "scatter"
    /\ UNCHANGED <<prog, tech, nEnbs, areaSize, bandwidth, p2pDelayMs, enbPos,
                   placed, nRows, nCols, i, attachMode, divZero>>
    /\ UNCHANGED deployVars
    /\ UNCHANGED aggVars

\* enbNodes.Get(0)->GetObject<MobilityModel>()->SetPosition(Vector(0.0, 0.0, 30.0))
PlaceSingle ==
    /\ pc = "placeSingle"
    /\ enbPos' = [enbPos EXCEPT ![0] = SingleEnbPosition]
    /\ placed' = placed \cup {0}
    /\ pc' = "scatter"
    /\ UNCHANGED <<prog, tech, nEnbs, areaSize, bandwidth, p2pDelayMs, nRows,
                   nCols, i, attachMode, divZero>>
    /\ UNCHANGED deployVars
    /\ UNCHANGED aggVars

\* the terminals' position allocator and mobilityUe.Install(ueNodes)
PlaceUes ==
    /\ pc = "scatter"
    /\ uePlaced' = 0..(nUes - 1)
    /\ pc' = "attach"
    /\ UNCHANGED <<prog, tech, nEnbs, areaSize, bandwidth, p2pDelayMs, enbPos,
                   placed, nRows, nCols, i, attachMode, divZero>>
    /\ UNCHANGED <<nUes, nodes, ueAttach>>
    /\ UNCHANGED aggVars

\* lteHelper->Attach(ueDevs) / lteHelper->Attach(ueDevs.Get(i), enbDevs.Get(0))
Attach ==
    /\ pc = "attach"
    /\ attachMode' = AttachModeOf(prog, nUes)
    /\ ueAttach' = [u \in 0..(nUes - 1) |-> UeAttachment(prog)]
    /\ pc' = "run"
    /\ UNCHANGED <<prog, tech, nEnbs, areaSize, bandwidth, p2pDelayMs, enbPos,
                   placed, nRows, nCols, i, divZero>>
    /\ UNCHANGED <<nUes, nodes, uePlaced>>
    /\ UNCHANGED aggVars

\* Simulator::Stop(Seconds(simTime)); Simulator::Run()
Run ==
    /\ pc = "run"
    /\ pc' = "ran"
    /\ UNCHANGED <<prog, tech, nEnbs, areaSize, bandwidth, p2pDelayMs, enbPos,
                   placed, nRows, nCols, i, attachMode, divZero>>
    /\ UNCHANGED deployVars
    /\ UNCHANGED aggVars

(* The state when Simulator::Run has returned and the accumulators are       *)
(* declared: the base stations of the default command line, any FlowStats    *)
(* map, one terminal per flow record.                                        *)
AggInit ==
    /\ prog \in {"multi", "single"}
    /\ tech = "4g"
    /\ simTime \in SimTimes
    /\ bandwidth = Bw4g
    /\ p2pDelayMs = Delay4gMs
    /\ IF prog = "multi"
       THEN /\ nEnbs = DefaultEnbs
            /\ areaSize = DefaultAreaSize
            /\ nRows = GridRows(DefaultEnbs)
            /\ nCols = GridCols(DefaultEnbs, GridRows(DefaultEnbs))
            /\ i = DefaultEnbs
            /\ enbPos = [k \in 0..(DefaultEnbs - 1) |->
                            EnbPosition(k, DefaultAreaSize, GridRows(DefaultEnbs),
                                        GridCols(DefaultEnbs, GridRows(DefaultEnbs)))]
       ELSE /\ nEnbs = 1
            /\ areaSize = SingleAreaSize
            /\ nRows = 0
            /\ nCols = 0
            /\ i = 0
            /\ enbPos = [k \in {0} |-> SingleEnbPosition]
    /\ placed = 0..(nEnbs - 1)
    /\ divZero = FALSE
    /\ pc = "fold"
    /\ stats \in StatsMaps
    /\ nUes = Len(stats)
    /\ nodes = [remoteHost |-> 1, enb |-> nEnbs, ue |-> nUes]
    /\ uePlaced = 0..(nUes - 1)
    /\ attachMode = AttachModeOf(prog, nUes)
    /\ ueAttach = [u \in 0..(nUes - 1) |-> UeAttachment(prog)]
    /\ it = 1
    /\ flowLog = <<>>
    /\ totalDelay = Zero
    /\ totalJitter = Zero
    /\ totalRxPackets = 0
    /\ totalRxBytes = 0
    /\ totalLostPackets = 0
    /\ meanDelayMs = Zero
    /\ jitterMs = Zero
    /\ throughputMbps = Zero
    /\ lossRatePct = Zero
    /\ report = <<>>

\* one iteration of for (auto const &flow : stats)
FoldFlow ==
    /\ pc = "fold"
    /\ it <= Len(stats)
    /\ LET fs == stats[it]
           line == [throughputMbps |-> FlowThroughputMbps(fs, simTime),
                    meanDelayMs |-> FlowMeanDelayMs(fs),
                    rxPackets |-> fs.rxPackets,
                    lostPackets |-> fs.lostPackets]
       IN  /\ flowLog' = Append(flowLog, line)
           /\ divZero' = (divZero \/ IsNaN(line.throughputMbps) \/ IsNaN(line.meanDelayMs))
           /\ totalDelay' = AddDelay(totalDelay, fs)
           /\ totalJitter' = AddJitter(totalJitter, fs)
           /\ totalRxPackets' = totalRxPackets + fs.rxPackets
           /\ totalRxBytes' = totalRxBytes + fs.rxBytes
           /\ totalLostPackets' = totalLostPackets + fs.lostPackets
    /\ it' = it + 1
    /\ UNCHANGED <<pc, stats, simTime, meanDelayMs, jitterMs, throughputMbps,
                   lossRatePct, report>>
    /\ UNCHANGED topoVars

\* the loop's exit and the block if (totalRxPackets > 0) { ... }
ComputeMeans ==
    /\ pc = "fold"
    /\ ~(it <= Len(stats))
    /\ meanDelayMs' = ReportMeanDelayMs(totalDelay, totalRxPackets)
    /\ jitterMs' = ReportJitterMs(totalJitter, totalRxPackets)
    /\ throughputMbps' = ReportThroughputMbps(totalRxBytes, totalRxPackets, simTime)
    /\ divZero' = (divZero \/ IsNaN(meanDelayMs') \/ IsNaN(jitterMs')
                           \/ IsNaN(throughputMbps'))
    /\ pc' = "loss"
    /\ UNCHANGED <<stats, simTime, it, flowLog, totalDelay, totalJitter,
                   totalRxPackets, totalRxBytes, totalLostPackets, lossRatePct,
                   report>>
    /\ UNCHANGED topoVars

\* totalOfferedPackets and lossRatePct
ComputeLoss ==
    /\ pc = "loss"
    /\ lossRatePct' = LossRatePct(totalLostPackets, totalRxPackets)
    /\ divZero' = (divZero \/ IsNaN(lossRatePct'))
    /\ pc' = "print"
    /\ UNCHANGED <<stats, simTime, it, flowLog, totalDelay, totalJitter,
                   totalRxPackets, totalRxBytes, totalLostPackets, meanDelayMs,
                   jitterMs, throughputMbps, report>>
    /\ UNCHANGED topoVars

\* the std::cout block
PrintReport ==
    /\ pc = "print"
    /\ report' = [meanDelayMs |-> meanDelayMs,
                  jitterMs |-> jitterMs,
                  throughputMbps |-> throughputMbps,
                  lossRatePct |-> lossRatePct,
                  totalRxPackets |-> totalRxPackets,
                  totalLostPackets |-> totalLostPackets]
    /\ pc' = "done"
    /\ UNCHANGED <<stats, simTime, it, flowLog, totalDelay, totalJitter,
                   totalRxPackets, totalRxBytes, totalLostPackets, meanDelayMs,
                   jitterMs, throughputMbps, lossRatePct, divZero>>
    /\ UNCHANGED topoVars

vars == <<pc, divZero, topoVars, aggVars>>

Next ==
    \/ SelectProfile
    \/ CreateRemoteHost
    \/ CreateNodes
    \/ ComputeGrid
    \/ PlaceEnb
    \/ EndPlace
    \/ PlaceSingle
    \/ PlaceUes
    \/ Attach
    \/ Run

Spec == Init /\ [][Next]_vars

(* The grid computation as a function of nEnbs alone, over the whole range   *)
(* of uint16_t: nothing else of main() is run.                               *)
GridInit ==
    /\ prog = "multi"
    /\ tech = "4g"
    /\ simTime \in SimTimes
    /\ nEnbs \in 0..(U16 - 1)
    /\ areaSize = DefaultAreaSize
    /\ pc = "gridOnly"
    /\ bandwidth = 0
    /\ p2pDelayMs = 0
    /\ enbPos = <<>>
    /\ placed = {}
    /\ nRows = 0
    /\ nCols = 0
    /\ i = 0
    /\ attachMode = "none"
    /\ nUes = 0
    /\ nodes = NoNodes
    /\ uePlaced = {}
    /\ ueAttach = <<>>
    /\ divZero = FALSE
    /\ AggIdle

\* uint16_t nRows = ...; if (nRows == 0) nRows = 1; uint16_t nCols = ...
ApplyGrid ==
    /\ pc = "gridOnly"
    /\ nRows' = GridRows(nEnbs)
    /\ nCols' = GridCols(nEnbs, nRows')
    /\ divZero' = (divZero \/ nRows' = 0)
    /\ pc' = "gridDone"
    /\ UNCHANGED <<prog, tech, nEnbs, areaSize, bandwidth, p2pDelayMs, enbPos,
                   placed, i, attachMode>>
    /\ UNCHANGED deployVars
    /\ UNCHANGED aggVars

GridNext == ApplyGrid

GridSpec == GridInit /\ [][GridNext]_vars

AggNext ==
    \/ FoldFlow
    \/ ComputeMeans
    \/ ComputeLoss
    \/ PrintReport

AggSpec == AggInit /\ [][AggNext]_vars

(* ======================= properties: topology ========================= *)
\* positions of the program counter after the grid loop has ended
AfterPlacement == {"scatter", "attach", "run", "ran"}

\* positions of the program counter after nRows and nCols are computed
AfterGrid == {"loop"} \cup AfterPlacement

\* the margin of one spacing unit around station k, with dx = A/(columns+1)
\* and dy = A/(rows+1)
InsideMargin(k) ==
    LET lo == Rat(-areaSize, 2)
        hi == Rat(areaSize, 2)
        dx == Rat(areaSize, nCols + 1)
        dy == Rat(areaSize, nRows + 1)
    IN  /\ RatLe(RatAdd(lo, dx), enbPos[k].x)
        /\ RatLe(enbPos[k].x, RatSub(hi, dx))
        /\ RatLe(RatAdd(lo, dy), enbPos[k].y)
        /\ RatLe(enbPos[k].y, RatSub(hi, dy))
        /\ RatLt(lo, enbPos[k].x) /\ RatLt(enbPos[k].x, hi)
        /\ RatLt(lo, enbPos[k].y) /\ RatLt(enbPos[k].y, hi)

\* C1: for N >= 1 and A > 0 the grid loop places exactly the N stations
\* 0..N-1, and every placed station lies inside the square with a margin of
\* one spacing unit on every side; its row index i / columns is below rows.
C1_ExactlyNInsideMargin ==
    (prog = "multi" /\ nEnbs >= 1) =>
        /\ \A k \in placed : k < nEnbs /\ InsideMargin(k) /\ k \div nCols < nRows
        /\ pc \in AfterPlacement =>
              /\ placed = 0..(nEnbs - 1)
              /\ Cardinality(placed) = nEnbs
              /\ DOMAIN enbPos = placed

\* C1 witness: seven stations placed, the last row partially filled
C1_Witness ==
    /\ prog = "multi" /\ pc = "ran" /\ nEnbs = 7
    /\ placed = 0..6
    /\ nRows * nCols > nEnbs

\* C2: no two distinct stations are placed at an identical (x, y) position.
C2_DistinctPositions ==
    (prog = "multi" /\ nEnbs >= 1) =>
        \A j \in placed : \A k \in placed :
            j # k => <<enbPos[j].x, enbPos[j].y>> # <<enbPos[k].x, enbPos[k].y>>

\* C2 witness: a deployment of several rows and columns is fully placed
C2_Witness ==
    /\ prog = "multi" /\ pc = "ran"
    /\ nRows >= 2 /\ nCols >= 2
    /\ Cardinality(placed) = nEnbs

\* C3: rows = floor(sqrt(N)) (at least 1), columns = ceil(N / rows), station i
\* at x = -A/2 + ((i mod columns)+1)*A/(columns+1),
\* y = -A/2 + ((i div columns)+1)*A/(rows+1), elevation 30; N = 1 puts the
\* station at the centre; N = 7, A = 2000 gives rows 2, columns 4 and station
\* 6 at (200, 1000/3); the single-cell program places its station at (0,0,30).
C3_GridFormula ==
    /\ (prog = "multi" /\ nEnbs >= 1 /\ pc \in AfterGrid) =>
          /\ nRows >= 1
          /\ nRows * nRows <= nEnbs /\ nEnbs < (nRows + 1) * (nRows + 1)
          /\ nCols * nRows >= nEnbs /\ (nCols - 1) * nRows < nEnbs
          /\ \A k \in placed :
                /\ enbPos[k].x =
                     Rat(-areaSize * (nCols + 1) + 2 * ((k % nCols) + 1) * areaSize,
                         2 * (nCols + 1))
                /\ enbPos[k].y =
                     Rat(-areaSize * (nRows + 1) + 2 * ((k \div nCols) + 1) * areaSize,
                         2 * (nRows + 1))
                /\ enbPos[k].z = Rat(30, 1)
    /\ (prog = "multi" /\ nEnbs = 1 /\ pc \in AfterPlacement) =>
          /\ nRows = 1 /\ nCols = 1
          /\ enbPos[0] = [x |-> Rat(0, 1), y |-> Rat(0, 1), z |-> Rat(30, 1)]
    /\ (prog = "multi" /\ nEnbs = 7 /\ areaSize = 2000 /\ pc \in AfterPlacement) =>
          /\ nRows = 2 /\ nCols = 4
          /\ enbPos[6] = [x |-> Rat(200, 1), y |-> Rat(1000, 3), z |-> Rat(30, 1)]
    /\ (prog = "single" /\ pc \in AfterPlacement) =>
          enbPos = [k \in {0} |-> [x |-> Rat(0, 1), y |-> Rat(0, 1), z |-> Rat(30, 1)]]

\* C3 witness: the run N = 7, A = 2000 has placed its seven stations
C3_Witness ==
    /\ prog = "multi" /\ pc = "ran" /\ nEnbs = 7 /\ areaSize = 2000
    /\ 6 \in placed

\* C4: no division or remainder by zero in the topology computation, N = 0
\* included: rows >= 1 once columns is computed, and a station is placed
\* (i / columns, i % columns evaluated) only with columns >= 1.
C4_NoDivisionByZero ==
    /\ ~divZero
    /\ (prog = "multi" /\ pc \in AfterGrid) => nRows >= 1
    /\ (prog = "multi" /\ placed # {}) => nCols >= 1

\* C4 witness: the run with no base station has passed the grid loop
C4_Witness ==
    /\ prog = "multi" /\ pc = "ran" /\ nEnbs = 0
    /\ nRows = 1 /\ nCols = 0 /\ placed = {}

(* ====================== properties: aggregation ======================= *)
\* f[1] + ... + f[n]
RECURSIVE SumTo(_, _)
SumTo(f, n) == IF n = 0 THEN 0 ELSE f[n] + SumTo(f, n - 1)

\* totals of the whole FlowStats map, independent of the fold's position
AllRxPackets == SumTo([j \in 1..Len(stats) |-> stats[j].rxPackets], Len(stats))

AllRxBytes == SumTo([j \in 1..Len(stats) |-> stats[j].rxBytes], Len(stats))

AllLost == SumTo([j \in 1..Len(stats) |-> stats[j].lostPackets], Len(stats))

\* cumulative delay (ms) over every flow
AllDelayMs == SumTo([j \in 1..Len(stats) |-> stats[j].delaySum], Len(stats))

\* cumulative jitter (ms) over the flows with more than one received packet
QualifiedJitterMs ==
    SumTo([j \in 1..Len(stats) |->
              IF stats[j].rxPackets > 1 THEN stats[j].jitterSum ELSE 0], Len(stats))

AllZeroRecords ==
    \A j \in 1..Len(stats) :
        /\ stats[j].rxPackets = 0 /\ stats[j].rxBytes = 0
        /\ stats[j].lostPackets = 0
        /\ stats[j].delaySum = 0 /\ stats[j].jitterSum = 0

\* positions of the program counter after the block if (totalRxPackets > 0)
AfterMeans == {"loss", "print", "done"}

\* C5: the aggregation never divides by zero (per-flow mean delay, global
\* mean delay, mean jitter, loss rate): no value it computes is the result
\* of such a division; with zero records or all-zero records the report
\* has meanDelay = 0, meanJitter = 0, throughput = 0 and lossRate = 0.
C5_NoZeroDenominator ==
    /\ ~divZero
    /\ \A j \in 1..Len(flowLog) : ~IsNaN(flowLog[j].meanDelayMs)
    /\ ~IsNaN(meanDelayMs) /\ ~IsNaN(jitterMs)
    /\ ~IsNaN(throughputMbps) /\ ~IsNaN(lossRatePct)
    /\ (pc = "done" /\ AllZeroRecords) =>
          /\ report.meanDelayMs = Rat(0, 1)
          /\ report.jitterMs = Rat(0, 1)
          /\ report.throughputMbps = Rat(0, 1)
          /\ report.lossRatePct = Rat(0, 1)

\* C5 witness: a report printed for two all-zero records
C5_Witness ==
    /\ pc = "done" /\ Len(stats) = 2 /\ AllZeroRecords
    /\ Len(flowLog) = 2
    /\ report.lossRatePct = Rat(0, 1)

\* C6: the mean jitter is the cumulative jitter of exactly the flows with
\* more than one received packet, divided by the total received packets of
\* all flows minus one when that total is > 1, and 0 otherwise (reported in
\* ms); flows (10 rx, 0.2 s) and (5 rx, 0.05 s) give 0.25/14 s.
C6_MeanJitter ==
    /\ pc \in AfterMeans =>
          jitterMs = IF AllRxPackets > 1
                     THEN Rat(QualifiedJitterMs, AllRxPackets - 1)
                     ELSE Rat(0, 1)
    /\ (pc = "done" /\ stats = <<FlowA, FlowB>>) => report.jitterMs = Rat(250, 14)

\* C6 witness: a flow with one received packet and a nonzero cumulative
\* jitter is left out of a nonzero mean whose divisor counts its packet
C6_Witness ==
    /\ pc = "done"
    /\ \E j \in 1..Len(stats) : stats[j].rxPackets = 1 /\ stats[j].jitterSum > 0
    /\ AllRxPackets = 3
    /\ report.jitterMs = Rat(20, 2)

\* C7: the mean delay is the cumulative delay of every flow divided by the
\* total received packets when that total is > 0, and 0 otherwise (reported
\* in ms); one flow with 1 received packet and cumulative delay 0.05 s
\* yields 50 ms and mean jitter 0.
C7_MeanDelay ==
    /\ pc \in AfterMeans =>
          meanDelayMs = IF AllRxPackets > 0
                        THEN Rat(AllDelayMs, AllRxPackets)
                        ELSE Rat(0, 1)
    /\ (pc = "done" /\ stats = <<FlowC>>) =>
          report.meanDelayMs = Rat(50, 1) /\ report.jitterMs = Rat(0, 1)

\* C7 witness: the report of the single flow with one received packet
C7_Witness ==
    /\ pc = "done" /\ stats = <<FlowC>>
    /\ report.meanDelayMs = Rat(50, 1)

\* C8: the total throughput is totalRxBytes * 8 / (T * 1,000,000) when the
\* total received-packet count is > 0 and 0 when that count is 0, even if
\* the received-byte total is nonzero.
C8_Throughput ==
    pc \in AfterMeans =>
        throughputMbps = IF AllRxPackets > 0
                         THEN Rat(AllRxBytes * 8, simTime * 1000000)
                         ELSE Rat(0, 1)

\* C8 witness: a report for records with received bytes and no received packet
C8_Witness ==
    /\ pc = "done" /\ AllRxPackets = 0 /\ AllRxBytes > 0
    /\ report.throughputMbps = Rat(0, 1)

\* C9: the loss rate is totalLost * 100 / (totalRxPackets + totalLost) when
\* that sum is > 0 and 0 otherwise, whether or not any packet was received;
\* flows 10 rx / 2 lost and 5 rx / 0 lost give 200/17 percent.
C9_LossRate ==
    /\ pc \in {"print", "done"} =>
          lossRatePct = IF AllRxPackets + AllLost > 0
                        THEN Rat(AllLost * 100, AllRxPackets + AllLost)
                        ELSE Rat(0, 1)
    /\ (pc = "done" /\ stats = <<FlowA, FlowB>>) => report.lossRatePct = Rat(200, 17)

\* C9 witness: the report of the two example flows
C9_Witness ==
    /\ pc = "done" /\ stats = <<FlowA, FlowB>>
    /\ report.lossRatePct = Rat(200, 17)

\* C10 as stated: with zero packets received across all flows every metric
\* of the report (mean delay, mean jitter, throughput, loss rate) is zero and
\* no error is raised.
C10_AllMetricsZero ==
    (pc = "done" /\ AllRxPackets = 0) =>
        /\ ~divZero
        /\ report.meanDelayMs = Rat(0, 1)
        /\ report.jitterMs = Rat(0, 1)
        /\ report.throughputMbps = Rat(0, 1)
        /\ report.lossRatePct = Rat(0, 1)

\* C10 amended: with zero packets received across all flows no error is
\* raised, mean delay, mean jitter and throughput are zero, and the loss
\* rate is zero if no packet was lost and 100 percent otherwise.
C10_ZeroReceived ==
    (pc = "done" /\ AllRxPackets = 0) =>
        /\ ~divZero
        /\ report.meanDelayMs = Rat(0, 1)
        /\ report.jitterMs = Rat(0, 1)
        /\ report.throughputMbps = Rat(0, 1)
        /\ report.lossRatePct = IF AllLost = 0 THEN Rat(0, 1) ELSE Rat(100, 1)

\* C10 witness: nothing received, packets lost, a loss rate of 100 percent
C10_Witness ==
    /\ pc = "done" /\ Len(stats) > 0 /\ AllRxPackets = 0 /\ AllLost > 0
    /\ report.lossRatePct = Rat(100, 1)
    /\ report.meanDelayMs = Rat(0, 1)

C12_SingleStationForced ==
    (pc \in {"run", "ran"} /\ nEnbs >= 1) =>
        /\ nEnbs = 1 =>
              \A u \in DOMAIN ueAttach :
                  ueAttach[u].mode = "forced" /\ ueAttach[u].enb = 0
        /\ \A u \in DOMAIN ueAttach : ueAttach[u].mode = "strongest" => nEnbs > 1

\* C12 amended: once the attachment step is over every terminal has an
\* attachment; in the single-cell program it is the forced attachment to the
\* one station; in the multi-cell program it is the signal-based attachment,
\* for every base-station count, one included.
C12_AttachmentByProgram ==
    pc \in {"run", "ran"} =>
        /\ DOMAIN ueAttach = 0..(nUes - 1)
        /\ prog = "single" =>
              /\ nEnbs = 1
              /\ \A u \in DOMAIN ueAttach :
                    ueAttach[u].mode = "forced" /\ ueAttach[u].enb = 0
        /\ prog = "multi" =>
              \A u \in DOMAIN ueAttach : ueAttach[u].mode = "strongest"

\* C12 witness: the single-cell program has force-attached two terminals
C12_Witness ==
    /\ pc = "ran" /\ prog = "single" /\ nUes = 2
    /\ ueAttach[0].mode = "forced" /\ ueAttach[1].mode = "forced"
    /\ ueAttach[1].enb = 0

(* ===================== properties: grid, full range =================== *)
\* C13: for every base-station count N from 1 to 65535 the computed grid
\* satisfies (rows - 1) * columns < N <= rows * columns: every row holds a
\* station, the rows before the last are full, only the last may be partial.
C13_RowsFilled ==
    (pc = "gridDone" /\ nEnbs >= 1) =>
        /\ (nRows - 1) * nCols < nEnbs
        /\ nEnbs <= nRows * nCols

\* C13 witness: the grid of the largest count, 255 rows of 257 columns
C13_Witness ==
    /\ pc = "gridDone" /\ nEnbs = 65535
    /\ nRows = 255 /\ nCols = 257

====
